---- MODULE Spec2Model ----
(***************************************************************************)
(* AccentChanger (src/app.py): the Streamlit session state (text, run,     *)
(* status), the three transition functions that mutate it, and the         *)
(* conversion block of main() that calls AWS Polly.                        *)
(*                                                                         *)
(* Strings are TLA+ strings; Python's + on str is \o.  The two external    *)
(* clients (speech_recognition, boto3 polly) are modelled by their         *)
(* outcome: the value they return or the exception they raise.             *)
(***************************************************************************)
EXTENDS Integers, Sequences, FiniteSets, TLC

VARIABLES session_state, polly_calls, alerts, accent_audio, calls,
          rendered_status, uncaught, listen_calls

vars == <<session_state, polly_calls, alerts, accent_audio, calls,
          rendered_status, uncaught, listen_calls>>

(* Number of calls made on one session in a checked behaviour. *)
MaxCalls == 4

(* Texts recognize_google may return. *)
Words == {"hello", "world", "testing one two"}

(* Texts str(e) of the exceptions the external clients may raise. *)
Details == {"", "Bad Gateway"}

None == "None"

Last(s) == s[Len(s)]

(* ---------------------------------------------------------------------- *)
(* Outcomes of the external clients                                       *)
(* ---------------------------------------------------------------------- *)

(* Outcome of one run of listen_and_transcribe's external calls:           *)
(*   mic_error          sr.Microphone() / adjust_for_ambient_noise raise   *)
(*                      (lines 67-71, outside the try block)               *)
(*   ok                 recognize_google returns value                     *)
(*   UnknownValueError  recognize_google could not understand the audio    *)
(*   WaitTimeoutError   listen timed out waiting for speech                *)
(*   RequestError       recognize_google could not reach the API           *)
(*   Exception          any other exception inside the try block           *)
RecognitionOutcomes ==
    {[kind |-> "ok", value |-> w] : w \in Words}
    \cup {[kind |-> "UnknownValueError", value |-> ""],
          [kind |-> "WaitTimeoutError", value |-> ""],
          [kind |-> "mic_error", value |-> ""]}
    \cup {[kind |-> "RequestError", value |-> e] : e \in Details}
    \cup {[kind |-> "Exception", value |-> e] : e \in Details}

(* Outcome of text_to_speech's external calls:                             *)
(*   init_error   boto3.client raises                                      *)
(*   synth_error  synthesize_speech (or writing the mp3) raises            *)
(*   ok           synthesize_speech returns an audio stream                *)
SynthesisOutcomes ==
    {[kind |-> "ok", value |-> ""]}
    \cup {[kind |-> "init_error", value |-> e] : e \in Details}
    \cup {[kind |-> "synth_error", value |-> e] : e \in Details}

(* ---------------------------------------------------------------------- *)
(* Session state                                                          *)
(* ---------------------------------------------------------------------- *)

InitialSessionState ==
    [text |-> "", run |-> FALSE, status |-> "Ready to start recording."]

start_transcription_keeps_text(s) ==
    [s EXCEPT !.run = TRUE,
              !.status = "Recording started. Please speak clearly."]

start_transcription_leaves_flag(s) ==
    [s EXCEPT !.text = "",
              !.status = "Recording started. Please speak clearly."]

start_transcription(s) ==
    [s EXCEPT !.run = TRUE,
              !.text = "",
              !.status = "Recording started. Please speak clearly."]

stop_transcription_noop(s) ==
    [s EXCEPT !.status = "Recording stopped. Processing final text..."]

stop_transcription_keeps_status(s) ==
    [s EXCEPT !.run = FALSE]

stop_transcription_toggles(s) ==
    [s EXCEPT !.run = ~@,
              !.status = "Recording stopped. Processing final text..."]

stop_transcription_clears_text(s) ==
    [s EXCEPT !.run = FALSE,
              !.text = "",
              !.status = "Recording stopped. Processing final text..."]

stop_transcription(s) ==
    [s EXCEPT !.run = FALSE,
              !.status = "Recording stopped. Processing final text..."]

(* ---------------------------------------------------------------------- *)
(* listen_and_transcribe                                                  *)
(* ---------------------------------------------------------------------- *)

append_transcript_unless_first(text, transcribed_text) ==
    IF text = "" THEN transcribed_text ELSE text \o " " \o transcribed_text

append_transcript_prepends(text, transcribed_text) ==
    transcribed_text \o " " \o text

(* Line 82: text += " " + transcribed_text. *)
append_transcript(text, transcribed_text) ==
    text \o " " \o transcribed_text

FailureKinds ==
    {"UnknownValueError", "WaitTimeoutError", "RequestError", "Exception"}

failure_status_warns_only(r) ==
    CASE r.kind = "UnknownValueError" -> "Processing speech..."
      [] r.kind = "WaitTimeoutError" ->
           "Listening timed out, waiting for speech..."
      [] r.kind = "RequestError" -> "API request error: " \o r.value
      [] r.kind = "Exception" -> "Error occurred: " \o r.value

failure_status_generic(r) ==
    CASE r.kind = "UnknownValueError" -> "Could not understand the audio."
      [] r.kind = "WaitTimeoutError" ->
           "Listening timed out, waiting for speech..."
      [] r.kind = "RequestError" -> "Error occurred: " \o r.value
      [] r.kind = "Exception" -> "Error occurred: " \o r.value

(* Lines 84-94: the status each except clause assigns. *)
failure_status(r) ==
    CASE r.kind = "UnknownValueError" -> "Could not understand the audio."
      [] r.kind = "WaitTimeoutError" ->
           "Listening timed out, waiting for speech..."
      [] r.kind = "RequestError" -> "API request error: " \o r.value
      [] r.kind = "Exception" -> "Error occurred: " \o r.value

listen_and_transcribe_stops_on_failure(s, r) ==
    IF r.kind = "mic_error" THEN s
    ELSE IF r.kind = "ok"
    THEN [s EXCEPT !.text = append_transcript(@, r.value),
                   !.status = "Transcription successful!"]
    ELSE [s EXCEPT !.run = FALSE, !.status = failure_status(r)]

(* The session state listen_and_transcribe leaves for outcome r.  An       *)
(* exception raised before the try block leaves the function before any    *)
(* assignment; otherwise status is "Listening..." (line 73), then          *)
(* "Processing speech..." once listen returned (line 77), then the value   *)
(* of the branch taken.  WaitTimeoutError is raised by listen itself.      *)
listen_and_transcribe(s, r) ==
    IF r.kind = "mic_error" THEN s
    ELSE
      LET listening == [s EXCEPT !.status = "Listening... Please speak."]
          processing == [listening EXCEPT !.status = "Processing speech..."]
      IN  CASE r.kind = "ok" ->
                 [processing EXCEPT !.text = append_transcript(@, r.value),
                                    !.status = "Transcription successful!"]
            [] r.kind = "WaitTimeoutError" ->
                 [listening EXCEPT !.status = failure_status(r)]
            [] OTHER ->
                 [processing EXCEPT !.status = failure_status(r)]

(* Lines 66-71 are outside the try block: an exception of sr.Microphone()  *)
(* or adjust_for_ambient_noise leaves listen_and_transcribe uncaught.      *)
listen_raises(r) == r.kind = "mic_error"

listen_attempts_retry(r) ==
    IF r.kind = "mic_error" THEN 0
    ELSE IF r.kind = "WaitTimeoutError" THEN 2 ELSE 1

(* Line 76: the number of recognizer.listen calls of one                   *)
(* listen_and_transcribe; there is no loop around it.                      *)
listen_attempts(r) == IF r.kind = "mic_error" THEN 0 ELSE 1

(* The st.warning / st.error boxes listen_and_transcribe shows. *)
listen_alerts(r) ==
    CASE r.kind = "UnknownValueError" ->
           <<[level |-> "warning", msg |-> "Could not understand the audio."]>>
      [] r.kind = "RequestError" ->
           <<[level |-> "error",
              msg |-> "Could not request results from Google Web Speech API; "
                      \o r.value]>>
      [] r.kind = "Exception" ->
           <<[level |-> "error",
              msg |-> "Error occurred during transcription: " \o r.value]>>
      [] OTHER -> <<>>

(* ---------------------------------------------------------------------- *)
(* text_to_speech                                                         *)
(* ---------------------------------------------------------------------- *)

(* initialize_polly_client: the client, or None after showing an error. *)
initialize_polly_client(o) ==
    IF o.kind = "init_error"
    THEN [client |-> None,
          alerts |-> <<[level |-> "error",
                        msg |-> "Error initializing AWS Polly client: "
                                \o o.value]>>]
    ELSE [client |-> "polly", alerts |-> <<>>]

text_to_speech_fixed_voice(text, voice_id, o) ==
    LET polly == initialize_polly_client(o)
        request == [Text |-> text, OutputFormat |-> "mp3", VoiceId |-> "Joanna"]
    IN  IF polly.client = None
        THEN [requests |-> <<>>, alerts |-> polly.alerts, audio |-> None]
        ELSE IF o.kind = "synth_error"
        THEN [requests |-> <<request>>,
              alerts |-> <<[level |-> "error",
                            msg |-> "Error converting text to speech: "
                                    \o o.value]>>,
              audio |-> None]
        ELSE [requests |-> <<request>>, alerts |-> <<>>, audio |-> "audio.mp3"]

(* text_to_speech(text, voice_id): the requests it sends to                *)
(* synthesize_speech, the boxes it shows and the file name it returns.     *)
text_to_speech(text, voice_id, o) ==
    LET polly == initialize_polly_client(o)
        request == [Text |-> text, OutputFormat |-> "mp3", VoiceId |-> voice_id]
    IN  IF polly.client = None
        THEN [requests |-> <<>>, alerts |-> polly.alerts, audio |-> None]
        ELSE IF o.kind = "synth_error"
        THEN [requests |-> <<request>>,
              alerts |-> <<[level |-> "error",
                            msg |-> "Error converting text to speech: "
                                    \o o.value]>>,
              audio |-> None]
        ELSE [requests |-> <<request>>, alerts |-> <<>>, audio |-> "audio.mp3"]

ConvertEnabled_ignores_run(s) == s.text # ""

ConvertEnabled_ignores_text(s) == ~s.run

(* The condition under which main() shows the conversion button. *)
ConvertEnabled(s) == ~s.run /\ s.text # ""

(* ---------------------------------------------------------------------- *)
(* The state machine: one action per call on the session                  *)
(* ---------------------------------------------------------------------- *)

Call(op, o) == [op |-> op, kind |-> o.kind, value |-> o.value]

NoOutcome == [kind |-> "-", value |-> ""]

Init ==
    /\ session_state = InitialSessionState
    /\ polly_calls = <<>>
    /\ alerts = <<>>
    /\ accent_audio = None
    /\ calls = <<>>
    /\ rendered_status = InitialSessionState.status
    /\ uncaught = FALSE
    /\ listen_calls = 0

(* Line 153: the status box is drawn at the top of the script run, before  *)
(* the button handlers of that run are reached.                            *)
RenderStatus == rendered_status' = session_state.status

Start ==
    /\ Len(calls) < MaxCalls
    /\ session_state' = start_transcription(session_state)
    /\ alerts' = <<>>
    /\ accent_audio' = None
    /\ calls' = Append(calls, Call("start", NoOutcome))
    /\ RenderStatus
    /\ uncaught' = FALSE
    /\ UNCHANGED <<polly_calls, listen_calls>>

Stop ==
    /\ Len(calls) < MaxCalls
    /\ session_state' = stop_transcription(session_state)
    /\ alerts' = <<>>
    /\ accent_audio' = None
    /\ calls' = Append(calls, Call("stop", NoOutcome))
    /\ RenderStatus
    /\ uncaught' = FALSE
    /\ UNCHANGED <<polly_calls, listen_calls>>

CaptureUtterance ==
    /\ Len(calls) < MaxCalls
    /\ \E r \in RecognitionOutcomes :
         /\ session_state' = listen_and_transcribe(session_state, r)
         /\ alerts' = listen_alerts(r)
         /\ calls' = Append(calls, Call("capture", r))
         /\ uncaught' = listen_raises(r)
         /\ listen_calls' = listen_calls + listen_attempts(r)
    /\ accent_audio' = None
    /\ RenderStatus
    /\ UNCHANGED polly_calls

Convert_resets_transcript ==
    /\ Len(calls) < MaxCalls
    /\ IF ConvertEnabled(session_state)
       THEN \E o \in SynthesisOutcomes :
              LET r == text_to_speech(session_state.text, "Aditi", o)
              IN  /\ polly_calls' = polly_calls \o r.requests
                  /\ alerts' = r.alerts
                  /\ accent_audio' = r.audio
                  /\ calls' = Append(calls, Call("convert", o))
                  /\ session_state' =
                       [session_state EXCEPT !.text = IF r.audio = None
                                                      THEN @ ELSE ""]
       ELSE /\ calls' = Append(calls,
                   Call("convert", [kind |-> "disabled", value |-> ""]))
            /\ alerts' = <<>>
            /\ accent_audio' = None
            /\ UNCHANGED <<polly_calls, session_state>>
    /\ RenderStatus
    /\ uncaught' = FALSE
    /\ UNCHANGED listen_calls

(* Lines 172-178 of main(): the button exists only when ConvertEnabled;    *)
(* a convert() in any other state finds no button and does nothing.        *)
Convert ==
    /\ Len(calls) < MaxCalls
    /\ IF ConvertEnabled(session_state)
       THEN \E o \in SynthesisOutcomes :
              LET r == text_to_speech(session_state.text, "Aditi", o)
              IN  /\ polly_calls' = polly_calls \o r.requests
                  /\ alerts' = r.alerts
                  /\ accent_audio' = r.audio
                  /\ calls' = Append(calls, Call("convert", o))
       ELSE /\ calls' = Append(calls,
                   Call("convert", [kind |-> "disabled", value |-> ""]))
            /\ alerts' = <<>>
            /\ accent_audio' = None
            /\ UNCHANGED polly_calls
    /\ RenderStatus
    /\ uncaught' = FALSE
    /\ UNCHANGED <<session_state, listen_calls>>

Next == Start \/ Stop \/ CaptureUtterance \/ Convert

(* The functions of the module called in any order on one session. *)
Spec == Init /\ [][Next]_vars

(* ---------------------------------------------------------------------- *)
(* The page: one action per button, each the whole script run it triggers *)
(* ---------------------------------------------------------------------- *)

(* Lines 159-161: start_transcription() then listen_and_transcribe(). *)
ClickStart ==
    /\ Len(calls) + 2 <= MaxCalls
    /\ \E r \in RecognitionOutcomes :
         /\ session_state' =
              listen_and_transcribe(start_transcription(session_state), r)
         /\ alerts' = listen_alerts(r)
         /\ calls' = calls \o <<Call("start", NoOutcome), Call("capture", r)>>
         /\ uncaught' = listen_raises(r)
         /\ listen_calls' = listen_calls + listen_attempts(r)
    /\ accent_audio' = None
    /\ RenderStatus
    /\ UNCHANGED polly_calls

(* Lines 164-165. *)
ClickStop ==
    /\ Len(calls) < MaxCalls
    /\ session_state' = stop_transcription(session_state)
    /\ alerts' = <<>>
    /\ accent_audio' = None
    /\ calls' = Append(calls, Call("stop", NoOutcome))
    /\ RenderStatus
    /\ uncaught' = FALSE
    /\ UNCHANGED <<polly_calls, listen_calls>>

(* Lines 173-178: the button can be pressed only when it is shown. *)
ClickConvert == ConvertEnabled(session_state) /\ Convert

NextUI == ClickStart \/ ClickStop \/ ClickConvert

SpecUI == Init /\ [][NextUI]_vars

(* ---------------------------------------------------------------------- *)
(* Properties                                                             *)
(* ---------------------------------------------------------------------- *)

Status == session_state.status

Text == session_state.text

Recording == session_state.run

(* The step appends a call with this op to the history. *)
Called(op) == calls' # calls /\ Last(calls').op = op

CalledWith(op, kind) == Called(op) /\ Last(calls').kind = kind

LastCallIs(op, kind) ==
    calls # <<>> /\ Last(calls).op = op /\ Last(calls).kind = kind

OnlyStartStop == \A i \in DOMAIN calls : calls[i].op \in {"start", "stop"}

(* C1: after any sequence of start() and stop() calls on a fresh session,  *)
(* recording is true iff the sequence is non-empty and its last call was   *)
(* start().                                                                *)
C1_RecordingIffLastStart ==
    OnlyStartStop =>
        (Recording <=> (calls # <<>> /\ Last(calls).op = "start"))

C1_Witness ==
    /\ OnlyStartStop
    /\ Len(calls) >= 3
    /\ calls[Len(calls) - 1].op = "start"
    /\ Last(calls).op = "stop"
    /\ ~Recording

(* C2: start(), in any state and with any prior transcript, leaves the     *)
(* transcript empty.                                                       *)
C2_StartResetsTranscript ==
    [][Called("start") => session_state'.text = ""]_vars

C2_Witness ==
    /\ Len(calls) >= 2
    /\ calls[Len(calls) - 1].op = "capture"
    /\ calls[Len(calls) - 1].kind = "ok"
    /\ Last(calls).op = "start"
    /\ Text = ""

(* C3: every successful capture appends one space followed by the          *)
(* recognized text; from an empty transcript, "hello" then "world" gives   *)
(* " hello world".                                                         *)
C3_AppendWithLeadingSpace ==
    /\ [][CalledWith("capture", "ok") =>
            session_state'.text = Text \o " " \o Last(calls').value]_vars
    /\ [](\A i \in 1..(Len(calls) - 1) :
            /\ i + 1 = Len(calls)
            /\ i = 1 \/ calls[i - 1].op = "start"
            /\ calls[i] = [op |-> "capture", kind |-> "ok", value |-> "hello"]
            /\ calls[i + 1] = [op |-> "capture", kind |-> "ok", value |-> "world"]
            => Text = " hello world")

C3_Witness ==
    /\ Len(calls) = 3
    /\ calls[1].op = "start"
    /\ calls[2] = [op |-> "capture", kind |-> "ok", value |-> "hello"]
    /\ calls[3] = [op |-> "capture", kind |-> "ok", value |-> "world"]
    /\ Text = " hello world"

(* C4: a capture failing with NoSpeechDetected (UnknownValueError) leaves  *)
(* the transcript as it was and sets status to the "could not understand"  *)
(* message.                                                                *)
C4_NoSpeechKeepsTranscript ==
    [][CalledWith("capture", "UnknownValueError") =>
         /\ session_state'.text = Text
         /\ session_state'.status = "Could not understand the audio."]_vars

C4_Witness ==
    /\ LastCallIs("capture", "UnknownValueError")
    /\ Text # ""
    /\ Status = "Could not understand the audio."

(* C5: while recording is true, convert() does not call the synthesis      *)
(* client, even when the transcript is non-empty.                          *)
C5_NoConvertWhileRecording ==
    [][Recording => polly_calls' = polly_calls]_vars

C5_Witness ==
    /\ Recording
    /\ Text # ""
    /\ LastCallIs("convert", "disabled")
    /\ polly_calls = <<>>

(* C6: convert() with an empty transcript does not call the synthesis      *)
(* client, and no synthesis request carries an empty text.                 *)
C6_NoConvertOfEmptyTranscript ==
    /\ [][Text = "" => polly_calls' = polly_calls]_vars
    /\ [](\A i \in DOMAIN polly_calls : polly_calls[i].Text # "")

C6_Witness ==
    /\ ~Recording
    /\ Text = ""
    /\ LastCallIs("convert", "disabled")
    /\ polly_calls = <<>>

EndToEnd ==
    /\ Len(calls) = 4
    /\ calls[1].op = "start"
    /\ calls[2] = [op |-> "capture", kind |-> "ok", value |-> "testing one two"]
    /\ calls[3].op = "stop"
    /\ calls[4].op = "convert"

EndToEndRequest ==
    [Text |-> " testing one two", OutputFormat |-> "mp3", VoiceId |-> "Aditi"]

(* C7 as stated: after start(), a capture returning "testing one two",     *)
(* stop() and convert(), the synthesis client was called exactly once,     *)
(* with " testing one two" and the voice 'Aditi'.                          *)
C7_EndToEnd_Original ==
    EndToEnd => polly_calls = <<EndToEndRequest>>

(* C7 as amended: the same, when convert() obtains a client; when client   *)
(* initialization fails the synthesis client is not called.                *)
C7_EndToEnd ==
    EndToEnd =>
        IF calls[4].kind = "init_error"
        THEN polly_calls = <<>>
        ELSE polly_calls = <<EndToEndRequest>>

C7_Witness ==
    /\ EndToEnd
    /\ calls[4].kind = "ok"
    /\ polly_calls = <<EndToEndRequest>>
    /\ accent_audio # None

(* The statuses left by the events that precede a convert(). *)
EarlierStatuses ==
    {InitialSessionState.status,
     "Recording started. Please speak clearly.",
     "Recording stopped. Processing final text...",
     "Transcription successful!"}
    \cup {failure_status(r) :
            r \in {o \in RecognitionOutcomes : o.kind \in FailureKinds}}

(* C8: status reflects the most recent event: start, stop, every           *)
(* recognition outcome and every outcome of the synthesis call of          *)
(* convert() overwrite it, so after a failed convert() status is an error  *)
(* status for that failure, not the status an earlier event left.          *)
C8_StatusReflectsLastEvent ==
    calls # <<>> =>
        LET c == Last(calls)
        IN  CASE c.op = "start" ->
                   Status = "Recording started. Please speak clearly."
              [] c.op = "stop" ->
                   Status = "Recording stopped. Processing final text..."
              [] c.op = "capture" /\ c.kind = "ok" ->
                   Status = "Transcription successful!"
              [] c.op = "capture" /\ c.kind \in FailureKinds ->
                   Status = failure_status(c)
              [] c.op = "convert" /\ c.kind = "synth_error" ->
                   Status \notin EarlierStatuses
              [] OTHER -> TRUE

(* C9: only start() and stop() change the recording flag; every outcome    *)
(* of captureUtterance() and of convert() leaves it as it was.             *)
C9_OnlyStartStopChangeRecording ==
    [][session_state'.run # Recording => Called("start") \/ Called("stop")]_vars

C9_Witness ==
    /\ Recording
    /\ Len(calls) >= 3
    /\ calls[Len(calls) - 1].op = "capture"
    /\ calls[Len(calls) - 1].kind = "ok"
    /\ LastCallIs("capture", "RequestError")

(* C10: each recognition failure kind leaves a status of its own: not the  *)
(* status any other failure kind can leave, and not the success status.    *)
C10_DistinctFailureStatus ==
    calls # <<>> /\ Last(calls).op = "capture" /\ Last(calls).kind \in FailureKinds
    => /\ Status # "Transcription successful!"
       /\ \A r \in RecognitionOutcomes :
            r.kind \in FailureKinds /\ r.kind # Last(calls).kind
            => Status # failure_status(r)

C10_Witness ==
    /\ LastCallIs("capture", "Exception")
    /\ Last(calls).value = ""
    /\ Status = "Error occurred: "

(* C11: no failure of an external call escapes its handler: after every    *)
(* button press, whatever the recognition or synthesis step raised         *)
(* (microphone and calibration failures included), the handler has         *)
(* completed normally.                                                     *)
C11_NoFailureEscapes == uncaught = FALSE

(* The step is the script run of one button. *)
StartClicked ==
    /\ Len(calls') = Len(calls) + 2
    /\ calls'[Len(calls) + 1].op = "start"
    /\ Last(calls').op = "capture"

StopClicked == Len(calls') = Len(calls) + 1 /\ Last(calls').op = "stop"

ConvertClicked == Len(calls') = Len(calls) + 1 /\ Last(calls').op = "convert"

NewListenCalls == listen_calls' - listen_calls

NewPollyCalls == Len(polly_calls') - Len(polly_calls)

(* C12: one button press makes at most one external call attempt: Start    *)
(* at most one recognition attempt and no synthesis, Stop none, Convert    *)
(* at most one synthesis attempt and no recognition; nothing is retried.   *)
C12_OneAttemptPerAction ==
    [][/\ NewListenCalls + NewPollyCalls <= 1
       /\ StartClicked => NewListenCalls <= 1 /\ NewPollyCalls = 0
       /\ StopClicked => NewListenCalls = 0 /\ NewPollyCalls = 0
       /\ ConvertClicked => NewListenCalls = 0 /\ NewPollyCalls <= 1]_vars

C12_Witness ==
    /\ Len(calls) = 3
    /\ calls[2] = [op |-> "capture", kind |-> "WaitTimeoutError", value |-> ""]
    /\ calls[3].op = "stop"
    /\ listen_calls = 1
    /\ polly_calls = <<>>

(* What one step may append to the transcript: a recognized text, with or  *)
(* without a separating space.                                             *)
Appendable ==
    Words \cup {" " \o w : w \in Words} \cup {w \o " " : w \in Words}

(* C13: in every step the new transcript is empty, or the old transcript,  *)
(* or the old transcript with text appended at its end.                    *)
C13_TranscriptAppendOrReset ==
    [][\/ session_state'.text = ""
       \/ session_state'.text = Text
       \/ \E x \in Appendable : session_state'.text = Text \o x]_vars

C13_Witness ==
    /\ Len(calls) = 4
    /\ calls[1] = [op |-> "capture", kind |-> "ok", value |-> "hello"]
    /\ calls[2] = [op |-> "capture", kind |-> "ok", value |-> "world"]
    /\ calls[3].op = "start"
    /\ calls[4] = [op |-> "capture", kind |-> "ok", value |-> "hello"]
    /\ Text = " hello"

StartedState ==
    [text |-> "", run |-> TRUE,
     status |-> "Recording started. Please speak clearly."]

(* C14 as stated: each button performs exactly one transition; the state   *)
(* after pressing 'Start Listening' is the state after start() alone.      *)
C14_ButtonIsOneTransition_Original ==
    [][/\ StartClicked => session_state' = StartedState
       /\ StopClicked =>
            session_state' =
              [session_state EXCEPT
                 !.run = FALSE,
                 !.status = "Recording stopped. Processing final text..."]
       /\ ConvertClicked => session_state' = session_state]_vars

(* The status one capture leaves after start(), outcome by outcome. *)
StatusAfterStartClick(r) ==
    CASE r.kind = "ok" -> "Transcription successful!"
      [] r.kind = "UnknownValueError" -> "Could not understand the audio."
      [] r.kind = "WaitTimeoutError" ->
           "Listening timed out, waiting for speech..."
      [] r.kind = "RequestError" -> "API request error: " \o r.value
      [] r.kind = "Exception" -> "Error occurred: " \o r.value
      [] r.kind = "mic_error" -> "Recording started. Please speak clearly."

(* C14 as amended: 'Start Listening' performs start() followed by one      *)
(* captureUtterance(); 'Stop Listening' performs exactly stop() and        *)
(* 'Convert' exactly convert().                                            *)
C14_ButtonTransitions ==
    [][/\ StartClicked =>
            LET r == Last(calls')
            IN  /\ session_state'.run = TRUE
                /\ session_state'.text =
                     IF r.kind = "ok" THEN " " \o r.value ELSE ""
                /\ session_state'.status = StatusAfterStartClick(r)
       /\ StopClicked =>
            session_state' =
              [session_state EXCEPT
                 !.run = FALSE,
                 !.status = "Recording stopped. Processing final text..."]
       /\ ConvertClicked => session_state' = session_state]_vars

C14_Witness ==
    /\ Len(calls) = 2
    /\ calls[1].op = "start"
    /\ calls[2] = [op |-> "capture", kind |-> "ok", value |-> "world"]
    /\ session_state =
         [text |-> " world", run |-> TRUE,
          status |-> "Transcription successful!"]

C16_RenderedStatusIsCurrent ==
    calls # <<>> => rendered_status = Status

(* C17: convert() never modifies the session state, whatever its outcome,  *)
(* and sends the transcript with the voice 'Aditi'; a repeated convert()   *)
(* sends the same request.                                                 *)
C17_ConvertKeepsSessionState ==
    /\ [][Called("convert") =>
            /\ session_state' = session_state
            /\ \A i \in (Len(polly_calls) + 1)..Len(polly_calls') :
                 /\ polly_calls'[i].Text = Text
                 /\ polly_calls'[i].VoiceId = "Aditi"]_vars
    /\ [](/\ Len(calls) >= 2
          /\ Last(calls).op = "convert"
          /\ calls[Len(calls) - 1].op = "convert"
          /\ {Last(calls).kind, calls[Len(calls) - 1].kind}
               \subseteq {"ok", "synth_error"}
          => /\ Len(polly_calls) >= 2
             /\ Last(polly_calls) = polly_calls[Len(polly_calls) - 1])

C17_Witness ==
    /\ Len(calls) >= 3
    /\ calls[Len(calls) - 1].op = "convert"
    /\ calls[Len(calls) - 1].kind = "ok"
    /\ LastCallIs("convert", "synth_error")
    /\ Len(polly_calls) = 2
    /\ polly_calls[1] = polly_calls[2]
    /\ Text # ""

(* C18: through the buttons the transcript holds at most one recognized    *)
(* fragment, and a Start press whose capture fails leaves it empty         *)
(* whatever it held before.                                                *)
C18_AtMostOneFragment ==
    /\ [](Text \in {""} \cup {" " \o w : w \in Words})
    /\ [][StartClicked /\ Last(calls').kind # "ok" =>
            session_state'.text = ""]_vars

C18_Witness ==
    /\ Len(calls) = 4
    /\ calls[2] = [op |-> "capture", kind |-> "ok", value |-> "hello"]
    /\ calls[3].op = "start"
    /\ calls[4] = [op |-> "capture", kind |-> "WaitTimeoutError", value |-> ""]
    /\ Text = ""

(* C19: whenever convert() is enabled (not recording, transcript           *)
(* non-empty), the most recent state-changing action was a Stop that       *)
(* followed a Start whose capture succeeded, and status is the             *)
(* 'Recording stopped' message; it is never enabled initially or directly  *)
(* after a Start press.                                                    *)
C19_ConvertEnabledOnlyAfterStop ==
    /\ ~Recording /\ Text # "" =>
         /\ Status = "Recording stopped. Processing final text..."
         /\ \E n \in DOMAIN calls :
              /\ calls[n].op = "stop"
              /\ \A j \in (n + 1)..Len(calls) : calls[j].op = "convert"
              /\ \E m \in 1..(n - 1) :
                   /\ calls[m].op = "capture"
                   /\ calls[m].kind = "ok"
                   /\ \A j \in (m + 1)..n : calls[j].op \in {"stop", "convert"}
    /\ calls = <<>> \/ Last(calls).op = "capture" => Recording \/ Text = ""

C19_Witness ==
    /\ Len(calls) = 4
    /\ calls[2].kind = "ok"
    /\ calls[3].op = "stop"
    /\ calls[4].op = "convert"
    /\ ~Recording
    /\ Text # ""
    /\ Status = "Recording stopped. Processing final text..."

(* C20: stop() is accepted in every state: it sets recording false and     *)
(* status to the 'Recording stopped' message and keeps the transcript; a   *)
(* stop() after a stop(), and a start() after a start(), change nothing.   *)
C20_StopAnywhereIdempotent ==
    [][/\ Called("stop") =>
            session_state' =
              [text |-> Text, run |-> FALSE,
               status |-> "Recording stopped. Processing final text..."]
       /\ Called("stop") /\ calls # <<>> /\ Last(calls).op = "stop" =>
            session_state' = session_state
       /\ Called("start") /\ calls # <<>> /\ Last(calls).op = "start" =>
            session_state' = session_state]_vars

C20_Witness ==
    /\ Len(calls) = 2
    /\ calls[1].op = "stop"
    /\ calls[2].op = "stop"
    /\ session_state =
         [text |-> "", run |-> FALSE,
          status |-> "Recording stopped. Processing final text..."]

====
